---------------------------- MODULE Spec2Model ----------------------------
(***************************************************************************)
(* small-go: a command-line scaffolding tool.  `new <project>` creates a   *)
(* directory, runs `go mod init`, writes a fixed set of boilerplate files  *)
(* and runs `go mod tidy`.  Two revisions of the entry point are in the    *)
(* sources: main.go calls createProject(projectName) (create_project.go),  *)
(* the later one takes a --template flag, resolves it against the          *)
(* templates package and calls createProject(projectName, templateName).   *)
(*                                                                         *)
(* Conventions of the model                                                *)
(*  - a path is the sequence of its components: "cmd/server/main.go" is    *)
(*    <<"cmd","server","main.go">>, "" is <<>>, a leading "/" component    *)
(*    marks an absolute path, "." and ".." are ordinary components until   *)
(*    the path is cleaned or resolved;                                     *)
(*  - a file content is the sequence of text segments fmt.Sprintf puts     *)
(*    together: the literal pieces of the format (named after the          *)
(*    generator) interleaved with the arguments;                           *)
(*  - a Go map literal is the sequence of its entries in source order; the *)
(*    iteration order of `range` over it is chosen nondeterministically.   *)
(***************************************************************************)
EXTENDS Integers, Sequences, FiniteSets, TLC

VARIABLES
    entry,        \* which entry point runs: "main.go", "part_002", or a harness
    projectName,  \* args[0]
    templateFlag, \* value of --template
    stdin,        \* lines still to be read from standard input
    templateName, \* local of newCmd.Run / parameter of createProject
    template,     \* result of GetTemplateByName, NoTemplate = nil
    pc,           \* position in the code
    err,          \* the error value returned / reported, NoErr = nil
    out,          \* what was printed and the exit status
    cwd,          \* process working directory (absolute, clean)
    dirs,         \* directories of the file system (absolute, clean paths)
    files,        \* regular files of the file system: path -> content
    mapping,      \* the map[string]string being written, entries in source order
    todo,         \* entries of `mapping` the range loop has not visited yet
    shuffled,     \* visits the range loop made out of source order
    dirIdx,       \* index of the `dirs` loop of createProject
    calls,        \* history: number of times each step was attempted
    okSteps,      \* history: steps that returned without error
    written,      \* history: os.WriteFile calls that succeeded (key, resolved path, content)
    api,          \* templates-package harness: the last calls and their results
    order,        \* repeated-loop harness: keys the current loop tried, in order
    runs          \* repeated-loop harness: the starting state and each finished loop

vars == <<entry, projectName, templateFlag, stdin, templateName, template, pc, err,
          out, cwd, dirs, files, mapping, todo, shuffled, dirIdx, calls, okSteps,
          written, api, order, runs>>

-----------------------------------------------------------------------------
(* Bounds of the model *)

\* the range loop visits at most this many entries out of source order
MaxShuffle == 1
\* standard input holds at most this many lines
MaxLines == 2
\* the templates-package harness makes at most this many calls
MaxCalls == 2
\* the count of prompts printed saturates here
MaxPrompts == 3

-----------------------------------------------------------------------------
(* Paths: path/filepath and the kernel's path resolution *)

Last(s) == s[Len(s)]
Front(s) == SubSeq(s, 1, Len(s) - 1)

IsAbs(p) == Len(p) > 0 /\ p[1] = "/"

\* filepath.Clean, component by component: drops ".", cancels "name/..",
\* keeps leading ".." of a relative path, drops ".." at the root.
RECURSIVE CleanFold(_, _, _)
CleanFold(stack, rest, abs) ==
    IF rest = <<>> THEN stack
    ELSE LET h == Head(rest)
             nxt == CASE h = "." -> stack
                      [] h = "/" -> stack
                      [] h = ".." ->
                            IF Len(stack) > 0 /\ Last(stack) # ".." THEN Front(stack)
                            ELSE IF abs THEN stack
                            ELSE Append(stack, "..")
                      [] OTHER -> Append(stack, h)
         IN  CleanFold(nxt, Tail(rest), abs)

Clean(p) ==
    LET body == CleanFold(<<>>, p, IsAbs(p))
    IN  IF IsAbs(p) THEN <<"/">> \o body
        ELSE IF body = <<>> THEN <<".">>
        ELSE body

\* filepath.Dir: all but the last element, cleaned; "." when there is none.
Dir(p) ==
    IF p = <<>> THEN <<".">>
    ELSE IF IsAbs(p) /\ Len(p) = 1 THEN <<"/">>
    ELSE Clean(Front(p))

\* What the kernel resolves path p to, from working directory base.
RECURSIVE Resolve(_, _)
Resolve(base, p) ==
    IF p = <<>> THEN base
    ELSE LET h == Head(p)
             nxt == CASE h = "/" -> <<>>
                      [] h = "." -> base
                      [] h = ".." -> IF base = <<>> THEN <<>> ELSE Front(base)
                      [] OTHER -> Append(base, h)
         IN  Resolve(nxt, Tail(p))

\* The directories a path walks through before its last component.
Ancestors(base, p) == { Resolve(base, SubSeq(p, 1, k)) : k \in 0..(Len(p) - 1) }

\* Every path p resolves to, prefix by prefix (what MkdirAll makes sure of).
Prefixes(base, p) == { Resolve(base, SubSeq(p, 1, k)) : k \in 1..Len(p) }

IsPrefix(a, b) == Len(a) <= Len(b) /\ SubSeq(b, 1, Len(a)) = a

-----------------------------------------------------------------------------
(* The file system calls of package os *)

\* An error value: the message of the outermost wrapper and the path it names.
Error(msg, path) == [msg |-> msg, path |-> path]
NoErr == Error("", <<>>)

\* os.Mkdir in place of os.MkdirAll: a target that exists is an error.
Mkdir(fs_dirs, fs_files, base, p) ==
    IF \/ p = <<>>
       \/ \E q \in Prefixes(base, p) : q \in DOMAIN fs_files
       \/ Resolve(base, p) \in fs_dirs
    THEN { [ok |-> FALSE, dirs |-> fs_dirs] }
    ELSE { [ok |-> TRUE, dirs |-> fs_dirs \cup Prefixes(base, p)],
           [ok |-> FALSE, dirs |-> fs_dirs] }

\* os.MkdirAll(p) from working directory base: the set of possible outcomes.
\* "" is an error; a regular file on the way is an error; an existing
\* directory is reused and is no error; otherwise every missing directory on
\* the way is created, unless the system refuses one of them (permissions,
\* full disk), which leaves the ones created before it.
MkdirAll(fs_dirs, fs_files, base, p) ==
    IF p = <<>> \/ \E q \in Prefixes(base, p) : q \in DOMAIN fs_files
    THEN { [ok |-> FALSE, dirs |-> fs_dirs] }
    ELSE { [ok |-> TRUE, dirs |-> fs_dirs \cup Prefixes(base, p)] }
         \cup { [ok |-> FALSE,
                 dirs |-> fs_dirs \cup { Resolve(base, SubSeq(p, 1, j)) : j \in 1..(k - 1) }] :
                k \in { k \in 1..Len(p) : Resolve(base, SubSeq(p, 1, k)) \notin fs_dirs } }

\* os.Chdir(p): the target must be an existing directory the process may enter.
Chdir(fs_dirs, base, p) ==
    IF \/ p = <<>>
       \/ Resolve(base, p) \notin fs_dirs
       \/ \E q \in Ancestors(base, p) : q \notin fs_dirs
    THEN { [ok |-> FALSE, cwd |-> base] }
    ELSE { [ok |-> TRUE, cwd |-> Resolve(base, p)], [ok |-> FALSE, cwd |-> base] }

\* os.WriteFile(p, data, 0644): every directory on the way must exist and
\* the target must not be a directory; on success the file is created or
\* truncated and holds exactly data.  The system may refuse the open (nothing
\* changes) or fail after the truncation (the file is left empty).
WriteFile(fs_dirs, fs_files, base, p, data) ==
    LET target == Resolve(base, p)
        put(d) == [q \in DOMAIN fs_files \cup {target} |->
                      IF q = target THEN d ELSE fs_files[q]]
    IN  IF \/ p = <<>>
           \/ Last(p) \in {".", "..", "/"}
           \/ \E q \in Ancestors(base, p) : q \notin fs_dirs
           \/ target \in fs_dirs
        THEN { [ok |-> FALSE, files |-> fs_files] }
        ELSE { [ok |-> TRUE, files |-> put(data)],
               [ok |-> FALSE, files |-> fs_files],
               [ok |-> FALSE, files |-> put(<< >>)] }

\* writeFile(filePath, content) of create_project.go: MkdirAll of
\* filepath.Dir(filePath), then os.WriteFile of the content as it is.
writeFile(fs_dirs, fs_files, base, filePath, content) ==
    LET made == MkdirAll(fs_dirs, fs_files, base, Dir(filePath))
    IN  { [ok |-> FALSE, dirs |-> m.dirs, files |-> fs_files] : m \in { m \in made : ~m.ok } }
        \cup UNION { { [ok |-> w.ok, dirs |-> m.dirs, files |-> w.files] :
                       w \in WriteFile(m.dirs, fs_files, base, filePath, content) } :
                     m \in { m \in made : m.ok } }

-----------------------------------------------------------------------------
(* File contents: fmt.Sprintf over the literal text of each generator *)

\* fmt.Sprintf(format, args...) with one %s per argument: literal piece,
\* argument, literal piece, ...  The literal pieces are named after the
\* format they come from; the arguments are copied in unchanged.
Sprintf(format, args) ==
    [i \in 1..(2 * Len(args) + 1) |->
        IF i % 2 = 1 THEN format \o "#" \o ToString((i + 1) \div 2)
        ELSE args[i \div 2]]

Times(n, x) == [i \in 1..n |-> x]

\* Number of %s verbs (all of them projectName) of each generator of
\* create_project.go.
CoreVerbs ==
    [ generateMainGo |-> 1, generateDomainUser |-> 0,
      generateApplicationUserService |-> 3, generateInboundUserService |-> 1,
      generateOutboundUserRepository |-> 1, generateHTTPUserHandler |-> 1,
      generateHTTPRouter |-> 1, generateUserRepository |-> 2,
      generateAppInitiator |-> 0, generateHTTPInitiator |-> 2,
      generatePersistenceInitiator |-> 4, generateREADME |-> 2 ]

\* The same for templates/generators.go (generateREADME is separate).
TemplateVerbs ==
    [ generateMainGo |-> 1, generateDomainUser |-> 0,
      generateApplicationUserService |-> 3, generateInboundUserService |-> 1,
      generateOutboundUserRepository |-> 1, generateHTTPUserHandler |-> 1,
      generateHTTPRouter |-> 1, generateUserRepository |-> 2,
      generateAppInitiator |-> 0, generateHTTPInitiator |-> 2,
      generatePersistenceInitiator |-> 4,
      generateCleanMainGo |-> 1, generateCleanDomainEntity |-> 0,
      generateCleanDomainService |-> 2, generateCleanStorageInterface |-> 1,
      generateCleanMongoRepository |-> 2, generateCleanUserDTO |-> 1,
      generateCleanUserHandler |-> 4, generateCleanUserMapper |-> 2,
      generateCleanAuthMiddleware |-> 0, generateCleanRoutes |-> 2,
      generateCleanInitiator |-> 0, generateCleanServiceInitiator |-> 2,
      generateCleanPersistenceInitiator |-> 3, generateCleanHandlerInitiator |-> 4,
      generateCleanConfigInitiator |-> 0, generateCleanLoggerInitiator |-> 0,
      generateCleanResponseUtils |-> 0, generateCleanMongoConnection |-> 0 ]

\* A generator of create_project.go applied to projectName.
CoreGen(gen, name) == Sprintf("main." \o gen, Times(CoreVerbs[gen], name))

\* TemplateGen with "demo" written into the text in place of the %s verbs.
TemplateGenDemo(gen, name) == Sprintf("templates." \o gen, Times(TemplateVerbs[gen], "demo"))

\* A generator of templates/generators.go applied to projectName.
TemplateGen(gen, name) == Sprintf("templates." \o gen, Times(TemplateVerbs[gen], name))

\* templates.generateREADME(projectName, templateType): structure and
\* features are chosen by the switch ("clean", or the default branch).
generateREADME(name, templateType) ==
    LET branch == IF templateType = "clean" THEN "clean" ELSE "default"
    IN  Sprintf("templates.generateREADME",
                << name, templateType, templateType,
                   "templates.generateREADME.structure." \o branch,
                   name,
                   "templates.generateREADME.features." \o branch >>)

Entry(path, content) == [path |-> path, content |-> content]

\* The map literal of generateCoreFiles (create_project.go).
CoreFiles(name) ==
    << Entry(<<"cmd", "server", "main.go">>, CoreGen("generateMainGo", name)),
       Entry(<<"internal", "domain", "user.go">>, CoreGen("generateDomainUser", name)),
       Entry(<<"internal", "application", "user_service.go">>,
             CoreGen("generateApplicationUserService", name)),
       Entry(<<"internal", "ports", "inbound", "user_service.go">>,
             CoreGen("generateInboundUserService", name)),
       Entry(<<"internal", "ports", "outbound", "user_repository.go">>,
             CoreGen("generateOutboundUserRepository", name)),
       Entry(<<"adapters", "inbound", "http", "user_handler.go">>,
             CoreGen("generateHTTPUserHandler", name)),
       Entry(<<"adapters", "inbound", "http", "router.go">>,
             CoreGen("generateHTTPRouter", name)),
       Entry(<<"adapters", "outbound", "persistence", "user_repository.go">>,
             CoreGen("generateUserRepository", name)),
       Entry(<<"initiators", "app.go">>, CoreGen("generateAppInitiator", name)),
       Entry(<<"initiators", "http.go">>, CoreGen("generateHTTPInitiator", name)),
       Entry(<<"initiators", "persistence.go">>,
             CoreGen("generatePersistenceInitiator", name)),
       Entry(<<"README.md">>, CoreGen("generateREADME", name)) >>

\* The `dirs` slice with one more directory, "docs", at its end.
CoreDirsWithDocs ==
    << <<"cmd", "server">>,
       <<"internal", "domain">>,
       <<"internal", "application">>,
       <<"internal", "ports", "inbound">>,
       <<"internal", "ports", "outbound">>,
       <<"adapters", "inbound", "http">>,
       <<"adapters", "outbound", "persistence">>,
       <<"initiators">>,
       <<"docs">> >>

\* The `dirs` slice of createProject (create_project.go).
CoreDirs ==
    << <<"cmd", "server">>,
       <<"internal", "domain">>,
       <<"internal", "application">>,
       <<"internal", "ports", "inbound">>,
       <<"internal", "ports", "outbound">>,
       <<"adapters", "inbound", "http">>,
       <<"adapters", "outbound", "persistence">>,
       <<"initiators">> >>

-----------------------------------------------------------------------------
(* Package templates *)

\* HexagonalTemplate.GenerateFiles with the README key written "../README.md".
HexagonalGenerateFilesEscaping(name) ==
    [i \in 1..Len(CoreFiles(name)) |->
        IF CoreFiles(name)[i].path = << "README.md" >>
        THEN Entry(<< "..", "README.md" >>, generateREADME(name, "hexagonal"))
        ELSE CoreFiles(name)[i]]

\* HexagonalTemplate.GenerateFiles with the main package under cmd/<projectName>.
HexagonalGenerateFilesNamed(name) ==
    [i \in 1..Len(CoreFiles(name)) |->
        IF CoreFiles(name)[i].path = << "cmd", "server", "main.go" >>
        THEN Entry(<< "cmd", name, "main.go" >>, TemplateGen("generateMainGo", name))
        ELSE CoreFiles(name)[i]]

\* HexagonalTemplate.GenerateFiles: no check of projectName, a map literal.
HexagonalGenerateFiles(name) ==
    << Entry(<<"cmd", "server", "main.go">>, TemplateGen("generateMainGo", name)),
       Entry(<<"internal", "domain", "user.go">>, TemplateGen("generateDomainUser", name)),
       Entry(<<"internal", "application", "user_service.go">>,
             TemplateGen("generateApplicationUserService", name)),
       Entry(<<"internal", "ports", "inbound", "user_service.go">>,
             TemplateGen("generateInboundUserService", name)),
       Entry(<<"internal", "ports", "outbound", "user_repository.go">>,
             TemplateGen("generateOutboundUserRepository", name)),
       Entry(<<"adapters", "inbound", "http", "user_handler.go">>,
             TemplateGen("generateHTTPUserHandler", name)),
       Entry(<<"adapters", "inbound", "http", "router.go">>,
             TemplateGen("generateHTTPRouter", name)),
       Entry(<<"adapters", "outbound", "persistence", "user_repository.go">>,
             TemplateGen("generateUserRepository", name)),
       Entry(<<"initiators", "app.go">>, TemplateGen("generateAppInitiator", name)),
       Entry(<<"initiators", "http.go">>, TemplateGen("generateHTTPInitiator", name)),
       Entry(<<"initiators", "persistence.go">>,
             TemplateGen("generatePersistenceInitiator", name)),
       Entry(<<"README.md">>, generateREADME(name, "hexagonal")) >>

\* CleanTemplate.GenerateFiles.
CleanGenerateFiles(name) ==
    << Entry(<<"cmd", "server", "main.go">>, TemplateGen("generateCleanMainGo", name)),
       Entry(<<"internal", "domain", "entity", "user.go">>,
             TemplateGen("generateCleanDomainEntity", name)),
       Entry(<<"internal", "domain", "service", "user_service.go">>,
             TemplateGen("generateCleanDomainService", name)),
       Entry(<<"internal", "storage", "interfaces", "user_repository.go">>,
             TemplateGen("generateCleanStorageInterface", name)),
       Entry(<<"internal", "storage", "mongo", "user_repository.go">>,
             TemplateGen("generateCleanMongoRepository", name)),
       Entry(<<"internal", "handler", "rest", "dto", "user_dto.go">>,
             TemplateGen("generateCleanUserDTO", name)),
       Entry(<<"internal", "handler", "rest", "http", "user_handler.go">>,
             TemplateGen("generateCleanUserHandler", name)),
       Entry(<<"internal", "handler", "rest", "mapper", "user_mapper.go">>,
             TemplateGen("generateCleanUserMapper", name)),
       Entry(<<"internal", "handler", "middleware", "auth.go">>,
             TemplateGen("generateCleanAuthMiddleware", name)),
       Entry(<<"internal", "glue", "routing", "routes.go">>,
             TemplateGen("generateCleanRoutes", name)),
       Entry(<<"initiator", "initiator.go">>, TemplateGen("generateCleanInitiator", name)),
       Entry(<<"initiator", "service.go">>,
             TemplateGen("generateCleanServiceInitiator", name)),
       Entry(<<"initiator", "persistence.go">>,
             TemplateGen("generateCleanPersistenceInitiator", name)),
       Entry(<<"initiator", "handler.go">>,
             TemplateGen("generateCleanHandlerInitiator", name)),
       Entry(<<"initiator", "config.go">>, TemplateGen("generateCleanConfigInitiator", name)),
       Entry(<<"initiator", "logger.go">>, TemplateGen("generateCleanLoggerInitiator", name)),
       Entry(<<"platform", "utils", "response.go">>,
             TemplateGen("generateCleanResponseUtils", name)),
       Entry(<<"platform", "mongo", "connection.go">>,
             TemplateGen("generateCleanMongoConnection", name)),
       Entry(<<"README.md">>, generateREADME(name, "clean")) >>

\* Name() with the clean template carrying the hexagonal template's name.
NameShared(t) == "hexagonal"

\* Template.Name() of each implementation.
Name(t) == IF t = "HexagonalTemplate" THEN "hexagonal" ELSE "clean"

\* GetAvailableTemplates over a package-level slice that every call turns
\* round.
GetAvailableTemplatesRotating ==
    IF Len(api) % 2 = 0 THEN << "HexagonalTemplate", "CleanTemplate" >>
    ELSE << "CleanTemplate", "HexagonalTemplate" >>

\* GetAvailableTemplates returning one package-level slice: every caller
\* holds the same backing array, and sees what another caller wrote to it.
GetAvailableTemplatesShared ==
    LET given == { i \in 1..Len(api) : api[i].fn = "GetAvailableTemplates" }
    IN  IF given = {} THEN << "HexagonalTemplate", "CleanTemplate" >>
        ELSE api[CHOOSE i \in given : \A j \in given : j <= i].held.list

\* GetAvailableTemplates: a fresh slice, &HexagonalTemplate{} then
\* &CleanTemplate{}.  A template value is identified by its type.
GetAvailableTemplates == << "HexagonalTemplate", "CleanTemplate" >>

\* The nil Template.
NoTemplate == "<nil>"

\* strings.ToLower on the names looked up.
ToLower(name) ==
    CASE name = "Hexagonal" -> "hexagonal"
      [] name = "CLEAN" -> "clean"
      [] OTHER -> name

\* GetTemplateByName comparing with strings.EqualFold instead of ==.
GetTemplateByNameFold(name) ==
    IF ToLower(name) = "hexagonal" THEN "HexagonalTemplate"
    ELSE IF ToLower(name) = "clean" THEN "CleanTemplate"
    ELSE "<nil>"

\* GetTemplateByName falling back to the first template instead of nil.
GetTemplateByNameDefault(name) ==
    IF name = "clean" THEN "CleanTemplate" ELSE "HexagonalTemplate"

\* GetTemplateByName: the first template of the list whose Name() == name
\* (Go string equality: exact, case-sensitive), nil when there is none.
GetTemplateByName(name) ==
    LET all == GetAvailableTemplates
        hits == { i \in 1..Len(all) : Name(all[i]) = name }
    IN  IF hits = {} THEN NoTemplate
        ELSE all[CHOOSE i \in hits : \A j \in hits : i <= j]

\* GenerateFiles stamping the README with the number of calls made so far.
GenerateFilesCounting(t, name) ==
    LET m == IF t = "HexagonalTemplate" THEN HexagonalGenerateFiles(name)
             ELSE CleanGenerateFiles(name)
    IN  [i \in 1..Len(m) |->
            IF m[i].path = << "README.md" >>
            THEN Entry(m[i].path, Append(m[i].content, ToString(Len(api))))
            ELSE m[i]]

\* Template.GenerateFiles, dispatched on the template value.
GenerateFiles(t, name) ==
    IF t = "HexagonalTemplate" THEN HexagonalGenerateFiles(name)
    ELSE CleanGenerateFiles(name)

\* Template.GetDependencies.
GetDependencies(t) ==
    IF t = "HexagonalTemplate"
    THEN << "github.com/go-chi/chi/v5", "go.uber.org/fx", "go.uber.org/zap" >>
    ELSE << "github.com/go-chi/chi/v5", "go.uber.org/fx", "go.uber.org/zap",
            "go.mongodb.org/mongo-driver/mongo", "go.mongodb.org/mongo-driver/bson" >>

Keys(m) == { m[i].path : i \in 1..Len(m) }

-----------------------------------------------------------------------------
(* Inputs and the initial state *)

\* Project names given on the command line, and each as a path.
ProjectNames == { "", "demo", "../out", "/abs" }

PathOf(name) ==
    CASE name = "" -> <<>>
      [] name = "../out" -> << "..", "out" >>
      [] name = "/abs" -> << "/", "abs" >>
      [] OTHER -> << name >>

\* Values of the --template flag; "" means the flag was not given.
TemplateFlags == { "", "hexagonal", "clean", "Hexagonal", "nonexistent" }

\* Lines typed at the prompt, and strconv.Atoi(strings.TrimSpace(line)).
Lines == { "1", " 2 ", "0", "3", "-1", "x" }

\* strconv.Atoi(line) without strings.TrimSpace: blanks around the digits
\* are a syntax error.
Atoi(line) ==
    CASE line = "1" -> [ok |-> TRUE, n |-> 1]
      [] line = "0" -> [ok |-> TRUE, n |-> 0]
      [] line = "3" -> [ok |-> TRUE, n |-> 3]
      [] line = "-1" -> [ok |-> TRUE, n |-> -1]
      [] OTHER -> [ok |-> FALSE, n |-> 0]

AtoiTrim(line) ==
    CASE line = "1" -> [ok |-> TRUE, n |-> 1]
      [] line = " 2 " -> [ok |-> TRUE, n |-> 2]
      [] line = "0" -> [ok |-> TRUE, n |-> 0]
      [] line = "3" -> [ok |-> TRUE, n |-> 3]
      [] line = "-1" -> [ok |-> TRUE, n |-> -1]
      [] OTHER -> [ok |-> FALSE, n |-> 0]

StdinSeqs == UNION { [1..n -> Lines] : n \in 0..MaxLines }

\* The directory the tool is started in.
StartDir == << "home" >>

\* What is at the project path before the tool runs: nothing, a directory
\* holding a README.md, an empty directory, or a regular file.
PreStates == { "fresh", "dir", "emptydir", "file" }

OldContent == << "old" >>

InitDirs(name, pre) ==
    { <<>>, StartDir }
    \cup (IF pre \in { "dir", "emptydir" } /\ name # ""
          THEN { Resolve(StartDir, PathOf(name)) } ELSE {})

InitFiles(name, pre) ==
    IF name = "" \/ pre \in { "fresh", "emptydir" } THEN << >>
    ELSE IF pre = "dir"
         THEN (Append(Resolve(StartDir, PathOf(name)), "README.md") :> OldContent)
         ELSE (Resolve(StartDir, PathOf(name)) :> OldContent)

NoApi == << >>

Init ==
    /\ entry \in { "main.go", "part_002" }
    /\ projectName \in ProjectNames
    /\ templateFlag \in (IF entry = "part_002" THEN TemplateFlags ELSE { "" })
    /\ stdin \in (IF entry = "part_002" /\ templateFlag = "" THEN StdinSeqs ELSE { << >> })
    /\ templateName = ""
    /\ template = NoTemplate
    /\ pc = "Run"
    /\ err = NoErr
    /\ out = [printed |-> << >>, exit |-> -1, prompts |-> 0]
    /\ cwd = StartDir
    /\ \E pre \in PreStates :
          /\ dirs = InitDirs(projectName, pre)
          /\ files = InitFiles(projectName, pre)
    /\ mapping = << >>
    /\ todo = << >>
    /\ shuffled = 0
    /\ dirIdx = 0
    /\ calls = << >>
    /\ okSteps = {}
    /\ written = {}
    /\ api = NoApi
    /\ order = << >>
    /\ runs = << >>

-----------------------------------------------------------------------------
(* History of the steps of a scaffold operation *)

Step(op, arg) == [op |-> op, arg |-> arg]

Count(c, s) == IF s \in DOMAIN c THEN c[s] ELSE 0

Bump(c, s) == [t \in DOMAIN c \cup {s} |-> IF t = s THEN Count(c, s) + 1 ELSE c[t]]

Remove(seq, i) == SubSeq(seq, 1, i - 1) \o SubSeq(seq, i + 1, Len(seq))

-----------------------------------------------------------------------------
(* newCmd.Run and selectTemplate *)

\* newCmd.Run of main.go: projectName := args[0]; createProject(projectName).
RunV1 ==
    /\ entry = "main.go" /\ pc = "Run"
    /\ pc' = "MkdirAll"
    /\ UNCHANGED <<entry, projectName, templateFlag, stdin, templateName, template, err,
                   out, cwd, dirs, files, mapping, todo, shuffled, dirIdx, calls,
                   okSteps, written, api, order, runs>>

\* RunV2 that asks at the prompt whatever the flag holds.
RunV2AlwaysPrompt ==
    /\ entry = "part_002" /\ pc = "Run"
    /\ templateName' = templateFlag
    /\ pc' = "selectTemplate"
    /\ UNCHANGED <<entry, projectName, templateFlag, stdin, template, err,
                   out, cwd, dirs, files, mapping, todo, shuffled, dirIdx, calls,
                   okSteps, written, api, order, runs>>

\* newCmd.Run of the later main: the flag value is the template name unless
\* it is empty, and then selectTemplate asks for one.
RunV2 ==
    /\ entry = "part_002" /\ pc = "Run"
    /\ templateName' = templateFlag
    /\ pc' = IF templateFlag = "" THEN "selectTemplate" ELSE "createProject"
    /\ UNCHANGED <<entry, projectName, templateFlag, stdin, template, err,
                   out, cwd, dirs, files, mapping, todo, shuffled, dirIdx, calls,
                   okSteps, written, api, order, runs>>

\* One turn of the loop of selectTemplate: prompt, read a line (at end of
\* input ReadString returns "" and an error that is dropped), trim, Atoi;
\* a number in 1..len(templates) returns that template's name, anything else
\* prints the hint and loops.  On return the bufio.Reader is dropped, and
\* with it the input it had buffered beyond the line.
SelectTemplate ==
    /\ pc = "selectTemplate"
    /\ LET line == IF stdin = << >> THEN "" ELSE Head(stdin)
           choice == AtoiTrim(line)
           all == GetAvailableTemplates
       IN  /\ out' = [out EXCEPT !.prompts = IF @ < MaxPrompts THEN @ + 1 ELSE @]
           /\ IF choice.ok /\ choice.n >= 1 /\ choice.n <= Len(all)
              THEN /\ templateName' = Name(all[choice.n])
                   /\ pc' = "createProject"
                   /\ stdin' = << >>
              ELSE /\ stdin' = IF stdin = << >> THEN stdin ELSE Tail(stdin)
                   /\ UNCHANGED <<templateName, pc>>
    /\ UNCHANGED <<entry, projectName, templateFlag, template, err,
                   cwd, dirs, files, mapping, todo, shuffled, dirIdx, calls,
                   okSteps, written, api, order, runs>>

-----------------------------------------------------------------------------
(* createProject *)

inputs == <<entry, projectName, templateFlag>>
fsys == <<cwd, dirs, files>>
loop == <<mapping, todo, shuffled>>

PutFile(fs_files, path, data) ==
    [q \in DOMAIN fs_files \cup {path} |-> IF q = path THEN data ELSE fs_files[q]]

\* A step of createProject returned err # nil: createProject returns it,
\* wrapped, at once.
Fail(msg, path) ==
    /\ err' = Error(msg, path)
    /\ pc' = "Run.err"

\* createProject(projectName, templateName), first step: look the template
\* up in the registry; a name that is not registered is an error.
ResolveTemplate ==
    /\ pc = "createProject"
    /\ template' = GetTemplateByName(templateName)
    /\ calls' = Bump(calls, Step("GetTemplateByName", << templateName >>))
    /\ IF template' = NoTemplate
       THEN Fail("template not found", << templateName >>) /\ UNCHANGED okSteps
       ELSE /\ pc' = "MkdirAll"
            /\ okSteps' = okSteps \cup { Step("GetTemplateByName", << templateName >>) }
            /\ UNCHANGED err
    /\ UNCHANGED <<inputs, stdin, templateName, out, fsys, loop, dirIdx, written, api, order, runs>>

\* os.MkdirAll(projectName, 0755)
MkdirRoot ==
    /\ pc = "MkdirAll"
    /\ LET p == PathOf(projectName)
       IN  \E o \in MkdirAll(dirs, files, cwd, p) :
              /\ dirs' = o.dirs
              /\ calls' = Bump(calls, Step("MkdirAll(projectName)", p))
              /\ IF o.ok
                 THEN /\ pc' = "Chdir"
                      /\ okSteps' = okSteps \cup { Step("MkdirAll(projectName)", p) }
                      /\ UNCHANGED err
                 ELSE Fail("failed to create project directory", p) /\ UNCHANGED okSteps
    /\ UNCHANGED <<inputs, stdin, templateName, template, out, cwd, files, loop, dirIdx,
                   written, api, order, runs>>

\* ChdirRoot without the `return` of its error branch.
ChdirRootNoReturn ==
    /\ pc = "Chdir"
    /\ LET p == PathOf(projectName)
       IN  \E o \in Chdir(dirs, cwd, p) :
              /\ cwd' = o.cwd
              /\ calls' = Bump(calls, Step("Chdir", p))
              /\ pc' = "runGoModInit"
              /\ IF o.ok
                 THEN /\ okSteps' = okSteps \cup { Step("Chdir", p) }
                      /\ UNCHANGED err
                 ELSE /\ err' = Error("failed to change to project directory", p)
                      /\ UNCHANGED okSteps
    /\ UNCHANGED <<inputs, stdin, templateName, template, out, dirs, files, loop, dirIdx,
                   written, api, order, runs>>

\* os.Chdir(projectName)
ChdirRoot ==
    /\ pc = "Chdir"
    /\ LET p == PathOf(projectName)
       IN  \E o \in Chdir(dirs, cwd, p) :
              /\ cwd' = o.cwd
              /\ calls' = Bump(calls, Step("Chdir", p))
              /\ IF o.ok
                 THEN /\ pc' = "runGoModInit"
                      /\ okSteps' = okSteps \cup { Step("Chdir", p) }
                      /\ UNCHANGED err
                 ELSE Fail("failed to change to project directory", p) /\ UNCHANGED okSteps
    /\ UNCHANGED <<inputs, stdin, templateName, template, out, dirs, files, loop, dirIdx,
                   written, api, order, runs>>

\* ModInitStart with cmd.Start() in place of cmd.Run(): createProject goes
\* on without waiting for the tool.
ModInitStartNoWait ==
    /\ pc = "runGoModInit"
    /\ pc' = "dirs"
    /\ calls' = Bump(calls, Step("runGoModInit", << projectName >>))
    /\ UNCHANGED <<inputs, stdin, templateName, template, err, out, fsys, loop, dirIdx,
                   okSteps, written, api, order, runs>>

\* runGoModInit: exec.Command("go", "mod", "init", projectName) is started ...
ModInitStart ==
    /\ pc = "runGoModInit"
    /\ pc' = "runGoModInit.wait"
    /\ calls' = Bump(calls, Step("runGoModInit", << projectName >>))
    /\ UNCHANGED <<inputs, stdin, templateName, template, err, out, fsys, loop, dirIdx,
                   okSteps, written, api, order, runs>>

\* ModInitReturn that runs the tool again when it failed.
ModInitReturnRetry ==
    /\ pc = "runGoModInit.wait"
    /\ \E ok \in BOOLEAN :
          IF ok
          THEN /\ files' = PutFile(files, Append(cwd, "go.mod"), << "module", projectName >>)
               /\ okSteps' = okSteps \cup { Step("runGoModInit", << projectName >>) }
               /\ pc' = "dirs"
          ELSE /\ pc' = "runGoModInit"
               /\ UNCHANGED <<files, okSteps>>
    /\ UNCHANGED <<inputs, stdin, templateName, template, err, out, cwd, dirs, loop, dirIdx,
                   calls, written, api, order, runs>>

\* ... and cmd.Run() returns: nil after the tool wrote go.mod in the working
\* directory, or the tool's error.
ModInitReturn ==
    /\ pc = "runGoModInit.wait"
    /\ \E ok \in BOOLEAN :
          IF ok
          THEN /\ files' = PutFile(files, Append(cwd, "go.mod"), << "module", projectName >>)
               /\ okSteps' = okSteps \cup { Step("runGoModInit", << projectName >>) }
               /\ pc' = "dirs"
               /\ UNCHANGED err
          ELSE /\ Fail("failed to initialize Go module", << >>)
               /\ UNCHANGED <<files, okSteps>>
    /\ UNCHANGED <<inputs, stdin, templateName, template, out, cwd, dirs, loop, dirIdx,
                   calls, written, api, order, runs>>

\* One turn of `for _, dir := range dirs { os.MkdirAll(dir, 0755) }`, and
\* after the last one the map literal of generateCoreFiles is built.
MkdirDirs ==
    /\ entry = "main.go" /\ pc = "dirs"
    /\ LET d == CoreDirs[dirIdx + 1]
       IN  \E o \in MkdirAll(dirs, files, cwd, d) :
              /\ dirs' = o.dirs
              /\ calls' = Bump(calls, Step("MkdirAll(dir)", d))
              /\ IF o.ok
                 THEN /\ dirIdx' = dirIdx + 1
                      /\ okSteps' = okSteps \cup { Step("MkdirAll(dir)", d) }
                      /\ IF dirIdx' = Len(CoreDirs)
                         THEN /\ pc' = "range"
                              /\ mapping' = CoreFiles(projectName)
                              /\ todo' = CoreFiles(projectName)
                         ELSE UNCHANGED <<pc, mapping, todo>>
                      /\ UNCHANGED err
                 ELSE /\ Fail("failed to create directory", d)
                      /\ UNCHANGED <<dirIdx, okSteps, mapping, todo>>
    /\ UNCHANGED <<inputs, stdin, templateName, template, out, cwd, files, shuffled,
                   written, api, order, runs>>

\* createProject(projectName, templateName): the mapping to write is the
\* resolved template's GenerateFiles(projectName).
GenerateFromTemplate ==
    /\ entry = "part_002" /\ pc = "dirs"
    /\ mapping' = GenerateFiles(template, projectName)
    /\ todo' = mapping'
    /\ pc' = "range"
    /\ calls' = Bump(calls, Step("GenerateFiles", << template, projectName >>))
    /\ UNCHANGED <<inputs, stdin, templateName, template, err, out, fsys, shuffled, dirIdx,
                   okSteps, written, api, order, runs>>

\* RangeStep that cleans up after a failed write: the files written so far
\* are removed before the error is returned.
RangeStepRollback(wrap, failed) ==
    /\ pc = "range" /\ todo # << >>
    /\ \E i \in 1..Len(todo) :
          /\ i = 1 \/ shuffled < MaxShuffle
          /\ shuffled' = IF i = 1 THEN shuffled ELSE shuffled + 1
          /\ LET e == todo[i]
             IN  \E o \in writeFile(dirs, files, cwd, e.path, e.content) :
                    /\ dirs' = o.dirs
                    /\ calls' = Bump(calls, Step("writeFile", e.path))
                    /\ IF o.ok
                       THEN /\ files' = o.files
                            /\ todo' = Remove(todo, i)
                            /\ okSteps' = okSteps \cup { Step("writeFile", e.path) }
                            /\ written' = written \cup
                                  { [key |-> e.path, file |-> Resolve(cwd, e.path),
                                     content |-> e.content] }
                            /\ UNCHANGED <<pc, err>>
                       ELSE /\ files' = [q \in DOMAIN o.files \ { w.file : w \in written } |->
                                            o.files[q]]
                            /\ err' = Error(wrap, e.path)
                            /\ pc' = failed
                            /\ UNCHANGED <<todo, okSteps, written>>
    /\ UNCHANGED <<inputs, stdin, templateName, template, out, cwd, mapping, dirIdx, api>>

\* One turn of `for filePath, content := range files { writeFile(...) }`.
\* The loop visits each entry once, in an order Go does not fix: the next
\* entry is the first one left in source order, or (at most MaxShuffle
\* times) any other one left.  The first error ends the loop and is returned.
RangeStep(wrap, failed) ==
    /\ pc = "range" /\ todo # << >>
    /\ \E i \in 1..Len(todo) :
          /\ i = 1 \/ shuffled < MaxShuffle
          /\ shuffled' = IF i = 1 THEN shuffled ELSE shuffled + 1
          /\ LET e == todo[i]
             IN  \E o \in writeFile(dirs, files, cwd, e.path, e.content) :
                    /\ dirs' = o.dirs
                    /\ files' = o.files
                    /\ calls' = Bump(calls, Step("writeFile", e.path))
                    /\ IF o.ok
                       THEN /\ todo' = Remove(todo, i)
                            /\ okSteps' = okSteps \cup { Step("writeFile", e.path) }
                            /\ written' = written \cup
                                  { [key |-> e.path, file |-> Resolve(cwd, e.path),
                                     content |-> e.content] }
                            /\ UNCHANGED <<pc, err>>
                       ELSE /\ err' = Error(wrap, e.path)
                            /\ pc' = failed
                            /\ UNCHANGED <<todo, okSteps, written>>
    /\ UNCHANGED <<inputs, stdin, templateName, template, out, cwd, mapping, dirIdx, api>>

\* The loop inside createProject: generateCoreFiles's error is wrapped.
WriteFiles ==
    /\ RangeStep("failed to generate files: failed to write", "Run.err")
    /\ UNCHANGED <<order, runs>>

\* WriteFilesDone with the `return nil` inside the loop body: the function
\* returns after the first entry.
WriteFilesDoneEarly ==
    /\ pc = "range" /\ Len(todo) < Len(mapping)
    /\ pc' = "runGoModTidy"
    /\ okSteps' = okSteps \cup { Step("generateCoreFiles", << >>) }
    /\ UNCHANGED <<inputs, stdin, templateName, template, err, out, fsys, loop, dirIdx,
                   calls, written, api, order, runs>>

\* The loop is over: generateCoreFiles returns nil.
WriteFilesDone ==
    /\ pc = "range" /\ todo = << >>
    /\ pc' = "runGoModTidy"
    /\ okSteps' = okSteps \cup { Step("generateCoreFiles", << >>) }
    /\ UNCHANGED <<inputs, stdin, templateName, template, err, out, fsys, loop, dirIdx,
                   calls, written, api, order, runs>>

\* runGoModTidy: exec.Command("go", "mod", "tidy") is started ...
ModTidyStart ==
    /\ pc = "runGoModTidy"
    /\ pc' = "runGoModTidy.wait"
    /\ calls' = Bump(calls, Step("runGoModTidy", << >>))
    /\ UNCHANGED <<inputs, stdin, templateName, template, err, out, fsys, loop, dirIdx,
                   okSteps, written, api, order, runs>>

\* ... and cmd.Run() returns: nil after the tool wrote go.sum, or its error.
ModTidyReturn ==
    /\ pc = "runGoModTidy.wait"
    /\ \E ok \in BOOLEAN :
          IF ok
          THEN /\ files' = PutFile(files, Append(cwd, "go.sum"), << "go.sum" >>)
               /\ okSteps' = okSteps \cup { Step("runGoModTidy", << >>) }
               /\ pc' = "return nil"
               /\ UNCHANGED err
          ELSE /\ Fail("failed to run go mod tidy", << >>)
               /\ UNCHANGED <<files, okSteps>>
    /\ UNCHANGED <<inputs, stdin, templateName, template, out, cwd, dirs, loop, dirIdx,
                   calls, written, api, order, runs>>

\* CreateProjectReturn with a deferred os.Chdir back to the directory the
\* process was in.
CreateProjectReturnRestoring ==
    /\ pc = "return nil"
    /\ pc' = "Run.ok"
    /\ cwd' = StartDir
    /\ UNCHANGED <<inputs, stdin, templateName, template, err, out, dirs, files, loop,
                   dirIdx, calls, okSteps, written, api, order, runs>>

\* `return nil`, the last statement of createProject.
CreateProjectReturn ==
    /\ pc = "return nil"
    /\ pc' = "Run.ok"
    /\ UNCHANGED <<inputs, stdin, templateName, template, err, out, fsys, loop, dirIdx,
                   calls, okSteps, written, api, order, runs>>

\* RunError without os.Exit(1): Run goes on to the success lines.
RunErrorFallThrough ==
    /\ pc = "Run.err"
    /\ out' = [out EXCEPT !.printed = << "Error" >>]
    /\ pc' = "Run.ok"
    /\ UNCHANGED <<inputs, stdin, templateName, template, err, fsys, loop, dirIdx,
                   calls, okSteps, written, api, order, runs>>

\* newCmd.Run after createProject returned an error: print it, os.Exit(1).
RunError ==
    /\ pc = "Run.err"
    /\ out' = [out EXCEPT !.printed = << "Error" >>, !.exit = 1]
    /\ pc' = "exited"
    /\ UNCHANGED <<inputs, stdin, templateName, template, err, fsys, loop, dirIdx,
                   calls, okSteps, written, api, order, runs>>

\* newCmd.Run after createProject returned nil: the three success lines.
RunSuccess ==
    /\ pc = "Run.ok"
    /\ out' = [out EXCEPT !.printed = << "Successfully created project",
                                         "Navigate to the project", "Run the service" >>,
                          !.exit = 0]
    /\ pc' = "exited"
    /\ UNCHANGED <<inputs, stdin, templateName, template, err, fsys, loop, dirIdx,
                   calls, okSteps, written, api, order, runs>>

Next ==
    \/ RunV1
    \/ RunV2
    \/ SelectTemplate
    \/ ResolveTemplate
    \/ MkdirRoot
    \/ ChdirRoot
    \/ ModInitStart
    \/ ModInitReturn
    \/ MkdirDirs
    \/ GenerateFromTemplate
    \/ WriteFiles
    \/ WriteFilesDone
    \/ ModTidyStart
    \/ ModTidyReturn
    \/ CreateProjectReturn
    \/ RunError
    \/ RunSuccess

Spec == Init /\ [][Next]_vars

\* As Init, with the range loop held to source order: whether the
\* operation ends does not depend on the order of the loop.
InitLive ==
    /\ entry \in { "main.go", "part_002" }
    /\ projectName \in ProjectNames
    /\ templateFlag \in (IF entry = "part_002" THEN TemplateFlags ELSE { "" })
    /\ stdin \in (IF entry = "part_002" /\ templateFlag = "" THEN StdinSeqs ELSE { << >> })
    /\ templateName = ""
    /\ template = NoTemplate
    /\ pc = "Run"
    /\ err = NoErr
    /\ out = [printed |-> << >>, exit |-> -1, prompts |-> 0]
    /\ cwd = StartDir
    /\ \E pre \in PreStates :
          /\ dirs = InitDirs(projectName, pre)
          /\ files = InitFiles(projectName, pre)
    /\ mapping = << >>
    /\ todo = << >>
    /\ shuffled = MaxShuffle
    /\ dirIdx = 0
    /\ calls = << >>
    /\ okSteps = {}
    /\ written = {}
    /\ api = NoApi
    /\ order = << >>
    /\ runs = << >>

\* The process runs on: a statement that can be executed is executed, and an
\* external tool that was started returns.
SpecLive == InitLive /\ [][Next]_vars /\ WF_vars(Next)

-----------------------------------------------------------------------------
(* The file-writing loop on its own: `files` is any mapping *)

\* Mappings handed to the loop: the two-file example, a key that leaves the
\* root, two keys that are the same file, a key that is a directory of
\* another, three flat files, a single file, and none.
TestMappings ==
    { << Entry(<< "a", "b", "c.txt" >>, << "hello" >>), Entry(<< "a", "d.txt" >>, << "world" >>) >>,
      << Entry(<< "..", "escape.txt" >>, << "evil" >>), Entry(<< "a", "d.txt" >>, << "world" >>) >>,
      << Entry(<< "a", "b.txt" >>, << "one" >>), Entry(<< "a", ".", "b.txt" >>, << "two" >>) >>,
      << Entry(<< "a" >>, << "file" >>), Entry(<< "a", "b.txt" >>, << "one" >>) >>,
      << Entry(<< "x.txt" >>, << "x" >>), Entry(<< "y.txt" >>, << "y" >>),
         Entry(<< "z.txt" >>, << "z" >>) >>,
      << Entry(<< "f.txt" >>, << "f" >>) >>,
      << >> }

\* The root directory the loop runs in.
RootDir == << "home", "root" >>

InitMaterialize ==
    /\ entry = "generateCoreFiles"
    /\ projectName = ""
    /\ templateFlag = ""
    /\ stdin = << >>
    /\ templateName = ""
    /\ template = NoTemplate
    /\ pc = "range"
    /\ err = NoErr
    /\ out = [printed |-> << >>, exit |-> -1, prompts |-> 0]
    /\ cwd = RootDir
    /\ \E pre \in { "empty", "used" } :
          /\ dirs = { << >>, << "home" >>, RootDir }
                    \cup (IF pre = "used" THEN { Append(RootDir, "a") } ELSE {})
          /\ files = IF pre = "used"
                     THEN (RootDir \o << "a", "d.txt" >> :> OldContent)
                     ELSE << >>
    /\ mapping \in TestMappings
    /\ todo = mapping
    /\ shuffled = 0
    /\ dirIdx = 0
    /\ calls = << >>
    /\ okSteps = {}
    /\ written = {}
    /\ api = NoApi
    /\ order = << >>
    /\ runs = << >>

\* One turn of the loop; generateCoreFiles returns the first error.
Materialize ==
    /\ RangeStep("failed to write", "returned err")
    /\ UNCHANGED <<order, runs>>

\* The loop is over: generateCoreFiles returns nil.
MaterializeDone ==
    /\ pc = "range" /\ todo = << >>
    /\ pc' = "returned nil"
    /\ UNCHANGED <<inputs, stdin, templateName, template, err, out, fsys, loop, dirIdx,
                   calls, okSteps, written, api, order, runs>>

NextMaterialize ==
    \/ Materialize
    \/ MaterializeDone

SpecMaterialize == InitMaterialize /\ [][NextMaterialize]_vars

-----------------------------------------------------------------------------
(* The file-writing loop run more than once on the same mapping *)

\* the loop is run at most this many times
MaxRuns == 2

\* What is kept of a loop that returned, and where the next one starts: in
\* the root as the loop left it, or in the root as it was at the start.
Run(o, fs_dirs, fs_files, e, w, next) ==
    [order |-> o, dirs |-> fs_dirs, files |-> fs_files, err |-> e, written |-> w,
     next |-> next]

\* As InitMaterialize; runs[1] keeps the starting state.
InitRepeat ==
    /\ entry = "generateCoreFiles"
    /\ projectName = ""
    /\ templateFlag = ""
    /\ stdin = << >>
    /\ templateName = ""
    /\ template = NoTemplate
    /\ pc = "range"
    /\ err = NoErr
    /\ out = [printed |-> << >>, exit |-> -1, prompts |-> 0]
    /\ cwd = RootDir
    /\ \E pre \in { "empty", "used" } :
          /\ dirs = { << >>, << "home" >>, RootDir }
                    \cup (IF pre = "used" THEN { Append(RootDir, "a") } ELSE {})
          /\ files = IF pre = "used"
                     THEN (RootDir \o << "a", "d.txt" >> :> OldContent)
                     ELSE << >>
    /\ mapping \in TestMappings
    /\ todo = mapping
    /\ shuffled = 0
    /\ dirIdx = 0
    /\ calls = << >>
    /\ okSteps = {}
    /\ written = {}
    /\ api = NoApi
    /\ order = << >>
    /\ runs = << Run(<< >>, dirs, files, NoErr, {}, "fresh root") >>

\* One turn of the loop, and the key it tried is noted.
MaterializeNoted ==
    /\ RangeStep("failed to write", "returned err")
    /\ order' = Append(order, (CHOOSE s \in DOMAIN calls' : Count(calls, s) < calls'[s]).arg)
    /\ UNCHANGED runs

\* generateCoreFiles has returned and is called again with the same map.
MaterializeAgain ==
    /\ pc \in { "returned nil", "returned err" }
    /\ Len(runs) < MaxRuns
    /\ \E next \in { "same root", "fresh root" } :
          /\ runs' = Append(runs, Run(order, dirs, files, err, written, next))
          /\ dirs' = IF next = "fresh root" THEN runs[1].dirs ELSE dirs
          /\ files' = IF next = "fresh root" THEN runs[1].files ELSE files
    /\ pc' = "range"
    /\ err' = NoErr
    /\ todo' = mapping
    /\ shuffled' = 0
    /\ order' = << >>
    /\ calls' = << >>
    /\ okSteps' = {}
    /\ written' = {}
    /\ UNCHANGED <<inputs, stdin, templateName, template, out, cwd, mapping, dirIdx, api>>

NextRepeat ==
    \/ MaterializeNoted
    \/ MaterializeDone
    \/ MaterializeAgain

SpecRepeat == InitRepeat /\ [][NextRepeat]_vars

-----------------------------------------------------------------------------
(* Package templates called by a client, in any order *)

\* Names looked up: the registered ones, the empty string, other letter
\* case, an unknown one.
LookupNames == { "hexagonal", "clean", "", "Hexagonal", "CLEAN", "nonexistent" }

\* Project identifiers handed to GenerateFiles, and strings.TrimSpace of each.
Identifiers == { "", " ", "demo", "svc" }

TrimSpace(id) == IF id = " " THEN "" ELSE id

\* A call and what it returned; `held` is the returned slice or map as the
\* caller holds it now.
Call(fn, arg, t, list, m) ==
    [fn |-> fn, arg |-> arg, template |-> t, list |-> list, mapping |-> m,
     held |-> [list |-> list, mapping |-> m]]

InitTemplates ==
    /\ entry = "templates"
    /\ projectName = ""
    /\ templateFlag = ""
    /\ stdin = << >>
    /\ templateName = ""
    /\ template = NoTemplate
    /\ pc = "client"
    /\ err = NoErr
    /\ out = [printed |-> << >>, exit |-> -1, prompts |-> 0]
    /\ cwd = StartDir
    /\ dirs = { << >>, StartDir }
    /\ files = << >>
    /\ mapping = << >>
    /\ todo = << >>
    /\ shuffled = 0
    /\ dirIdx = 0
    /\ calls = << >>
    /\ okSteps = {}
    /\ written = {}
    /\ api = << >>
    /\ order = << >>
    /\ runs = << >>

notApi == <<entry, projectName, templateFlag, stdin, templateName, template, pc, err,
            out, cwd, dirs, files, mapping, todo, shuffled, dirIdx, calls, okSteps,
            written, order, runs>>

CallGetAvailableTemplates ==
    /\ pc = "client" /\ Len(api) < MaxCalls
    /\ api' = Append(api, Call("GetAvailableTemplates", << >>, NoTemplate,
                               GetAvailableTemplates, << >>))
    /\ UNCHANGED notApi

CallGetTemplateByName ==
    /\ pc = "client" /\ Len(api) < MaxCalls
    /\ \E name \in LookupNames :
          api' = Append(api, Call("GetTemplateByName", << name >>,
                                  GetTemplateByName(name), << >>, << >>))
    /\ UNCHANGED notApi

CallGenerateFiles ==
    /\ pc = "client" /\ Len(api) < MaxCalls
    /\ \E i \in 1..Len(GetAvailableTemplates), id \in Identifiers :
          LET t == GetAvailableTemplates[i]
          IN  api' = Append(api, Call("GenerateFiles", << t, id >>, NoTemplate, << >>,
                                      GenerateFiles(t, id)))
    /\ UNCHANGED notApi

CallGetDependencies ==
    /\ pc = "client" /\ Len(api) < MaxCalls
    /\ \E i \in 1..Len(GetAvailableTemplates) :
          LET t == GetAvailableTemplates[i]
          IN  api' = Append(api, Call("GetDependencies", << t >>, NoTemplate,
                                      GetDependencies(t), << >>))
    /\ UNCHANGED notApi

\* The caller changes a slice or a map it was given: list[0] = list[len-1],
\* or every key of the map deleted.
CallerModifies ==
    /\ pc = "client"
    /\ \E i \in 1..Len(api) :
          \/ /\ api[i].held.list # << >>
             /\ api[i].held.list[1] # api[i].held.list[Len(api[i].held.list)]
             /\ api' = [api EXCEPT ![i].held.list[1] = api[i].held.list[Len(api[i].held.list)]]
          \/ /\ api[i].held.mapping # << >>
             /\ api' = [api EXCEPT ![i].held.mapping = << >>]
    /\ UNCHANGED notApi

NextTemplates ==
    \/ CallerModifies
    \/ CallGetAvailableTemplates
    \/ CallGetTemplateByName
    \/ CallGenerateFiles
    \/ CallGetDependencies

SpecTemplates == InitTemplates /\ [][NextTemplates]_vars

-----------------------------------------------------------------------------
(* The scaffold operation as the state machine
   START -> DIR_CREATED -> MODULE_INITIALIZED -> FILES_WRITTEN ->
   DEPENDENCIES_RESOLVED -> DONE, with FAILED *)

\* The state of the operation, read off the position in createProject and
\* the error it holds.
Phase ==
    IF err # NoErr THEN "FAILED"
    ELSE CASE pc \in { "Run", "selectTemplate", "createProject", "MkdirAll" } -> "START"
           [] pc \in { "Chdir", "runGoModInit", "runGoModInit.wait" } -> "DIR_CREATED"
           [] pc \in { "dirs", "range" } -> "MODULE_INITIALIZED"
           [] pc \in { "runGoModTidy", "runGoModTidy.wait" } -> "FILES_WRITTEN"
           [] pc = "return nil" -> "DEPENDENCIES_RESOLVED"
           [] OTHER -> "DONE"

Rank(phase) ==
    CASE phase = "START" -> 0
      [] phase = "DIR_CREATED" -> 1
      [] phase = "MODULE_INITIALIZED" -> 2
      [] phase = "FILES_WRITTEN" -> 3
      [] phase = "DEPENDENCIES_RESOLVED" -> 4
      [] phase = "DONE" -> 5
      [] OTHER -> 6

WriteSteps(c) == { s \in DOMAIN c : s.op = "writeFile" }

InitStep == Step("runGoModInit", << projectName >>)
TidyStep == Step("runGoModTidy", << >>)
RootStep == Step("MkdirAll(projectName)", PathOf(projectName))

-----------------------------------------------------------------------------
(* Claims about the scaffold operation (specification Spec) *)

\* C1: a scaffold operation moves only forward, one state at a time, through
\* START, DIR_CREATED, MODULE_INITIALIZED, FILES_WRITTEN,
\* DEPENDENCIES_RESOLVED, DONE; a failing step takes it to FAILED, where no
\* further step is attempted and the file system and working directory no
\* longer change; and no step is attempted more than once.
C1_ForwardOnly ==
    [][ /\ \/ Phase' = Phase
           \/ Phase' = "FAILED"
           \/ Rank(Phase') = Rank(Phase) + 1
        /\ Phase = "FAILED" =>
              /\ Phase' = "FAILED"
              /\ calls' = calls
              /\ fsys' = fsys
        /\ \A s \in DOMAIN calls' : calls'[s] <= 1 ]_vars

\* C1 witness: an operation that failed in the middle of the file loop, after
\* some file was written, and has exited.
C1_Witness ==
    /\ pc = "exited" /\ Phase = "FAILED"
    /\ WriteSteps(calls) \cap okSteps # {}
    /\ \E s \in WriteSteps(calls) : s \notin okSteps

\* C2: go mod init is run at most once, only once the project directory has
\* been created and before any template file is written; an operation that
\* reaches DONE has run it exactly once.
C2_ModInitOnce ==
    /\ Count(calls, InitStep) <= 1
    /\ Count(calls, InitStep) = 1 =>
          /\ RootStep \in okSteps
          /\ Resolve(StartDir, PathOf(projectName)) \in dirs
    /\ WriteSteps(calls) # {} => InitStep \in okSteps
    /\ Phase = "DONE" => Count(calls, InitStep) = 1

\* C2 witness: an operation that reached DONE and exited.
C2_Witness ==
    /\ pc = "exited" /\ Phase = "DONE"
    /\ Count(calls, InitStep) = 1
    /\ WriteSteps(calls) # {}

\* C3: go mod tidy is run at most once, only after every entry of the
\* generated mapping was written without error, and never after a failed
\* write.
C3_ModTidyAfterFiles ==
    /\ Count(calls, TidyStep) <= 1
    /\ Count(calls, TidyStep) = 1 =>
          /\ mapping # << >>
          /\ \A i \in 1..Len(mapping) :
                /\ Step("writeFile", mapping[i].path) \in okSteps
                /\ Resolve(cwd, mapping[i].path) \in DOMAIN files
                /\ files[Resolve(cwd, mapping[i].path)] = mapping[i].content
          /\ WriteSteps(calls) \subseteq okSteps

\* C3 witness: the tool is running after the whole mapping was written.
C3_Witness ==
    /\ pc = "runGoModTidy.wait"
    /\ Count(calls, TidyStep) = 1
    /\ Cardinality(WriteSteps(calls)) = Len(mapping)
    /\ Len(mapping) > 1

\* C5: the scaffolder given a template name that is not registered fails
\* with the "template not found" error and writes no template file, whatever
\* the project name; the process exits with status 1.
C5_UnknownTemplateWritesNothing ==
    ( /\ entry = "part_002"
      /\ pc \notin { "Run", "selectTemplate", "createProject" }
      /\ \A i \in 1..Len(GetAvailableTemplates) :
            Name(GetAvailableTemplates[i]) # templateName )
    => /\ err = Error("template not found", << templateName >>)
       /\ WriteSteps(calls) = {}
       /\ written = {}
       /\ mapping = << >>
       /\ pc \in { "Run.err", "exited" }
       /\ pc = "exited" => out.exit = 1

\* C5 witness: the run with --template nonexistent has exited.
C5_Witness ==
    /\ entry = "part_002" /\ pc = "exited"
    /\ templateName = "nonexistent"
    /\ projectName = "demo"
    /\ err.msg = "template not found"

-----------------------------------------------------------------------------
(* Claims about package templates (specification SpecTemplates) *)

LookupCalls == { i \in 1..Len(api) : api[i].fn = "GetTemplateByName" }
GenerateCalls == { i \in 1..Len(api) : api[i].fn = "GenerateFiles" }

\* Path p, joined to root, names something strictly inside root.
Inside(root, p) ==
    /\ ~IsAbs(p)
    /\ IsPrefix(root, Resolve(root, p))
    /\ Resolve(root, p) # root

\* C4: GetTemplateByName(name) is the hexagonal template for "hexagonal",
\* the clean template for "clean", and nil for every other string: the
\* empty string, a registered name in other letter case, an unknown name.
C4_LookupExactMatch ==
    \A i \in LookupCalls :
        LET name == api[i].arg[1]
            r == api[i].template
        IN  /\ name = "hexagonal" => r = "HexagonalTemplate"
            /\ name = "clean" => r = "CleanTemplate"
            /\ name \notin { "hexagonal", "clean" } => r = NoTemplate

\* C4 witness: a registered name and the same name capitalised have been
\* looked up.
C4_Witness ==
    /\ \E i \in LookupCalls : api[i].arg = << "hexagonal" >> /\ api[i].template # NoTemplate
    /\ \E i \in LookupCalls : api[i].arg = << "Hexagonal" >> /\ api[i].template = NoTemplate

\* C6: for every registered template and every non-empty identifier the
\* generated mapping is not empty, its keys are pairwise distinct once
\* cleaned, and every key is relative and stays inside the project root.
C6_KeysDistinctAndInsideRoot ==
    \A i \in GenerateCalls :
        api[i].arg[2] # "" =>
            LET m == api[i].mapping
            IN  /\ Len(m) > 0
                /\ \A a, b \in 1..Len(m) : a # b => Clean(m[a].path) # Clean(m[b].path)
                /\ \A a \in 1..Len(m) : Inside(RootDir, m[a].path)

\* C6 witness: both templates have generated for a non-empty identifier.
C6_Witness ==
    /\ \E i \in GenerateCalls :
          api[i].arg = << "HexagonalTemplate", "demo" >> /\ Len(api[i].mapping) = 12
    /\ \E i \in GenerateCalls :
          api[i].arg = << "CleanTemplate", " " >> /\ Len(api[i].mapping) = 19

\* C7 as claimed: GenerateFiles returns no mapping for an identifier that is
\* empty or only white space.
C7_BlankIdentifierRejected ==
    \A i \in GenerateCalls :
        TrimSpace(api[i].arg[2]) = "" => api[i].mapping = << >>

-----------------------------------------------------------------------------
(* Claims about the file-writing loop (specification SpecMaterialize) *)

Escaping(m) == { i \in 1..Len(m) : ~Inside(RootDir, m[i].path) }

Colliding(m) ==
    { i \in 1..Len(m) : \E j \in 1..Len(m) : j # i /\ Clean(m[j].path) = Clean(m[i].path) }

NothingWritten ==
    /\ WriteSteps(calls) = {}
    /\ written = {}
    /\ pc # "returned nil"

-----------------------------------------------------------------------------
(* Claims about failures and what they leave behind (specification Spec) *)

ProjectRoot == Resolve(StartDir, PathOf(projectName))

WriteFailed == err.msg = "failed to generate files: failed to write"

\* C11: the file loop stops at the first entry whose MkdirAll or WriteFile
\* fails: the error returned names that entry's path, no other entry is
\* attempted afterwards, and every file written before it is still on disk
\* with its content; and whichever later step of createProject fails, the
\* project directory, go.mod and the files written stay in place.
C11_FirstFailureStopsNoRollback ==
    /\ \A w \in written :
          /\ w.file \in DOMAIN files
          /\ files[w.file] = w.content
          /\ Ancestors(cwd, w.key) \subseteq dirs
    /\ WriteFailed =>
          /\ WriteSteps(calls) \ okSteps = { Step("writeFile", err.path) }
          /\ \E i \in 1..Len(todo) : todo[i].path = err.path
          /\ \A i \in 1..Len(todo) :
                todo[i].path # err.path => Count(calls, Step("writeFile", todo[i].path)) = 0
          /\ Len(todo) + Cardinality(written) = Len(mapping)
          /\ Count(calls, TidyStep) = 0
    /\ (err # NoErr /\ RootStep \in okSteps) => ProjectRoot \in dirs
    /\ (err # NoErr /\ InitStep \in okSteps) => Append(ProjectRoot, "go.mod") \in DOMAIN files

\* C11 witness: the run has exited after the third write failed, with two
\* files written and the rest of the mapping untouched.
C11_Witness ==
    /\ pc = "exited" /\ WriteFailed
    /\ Cardinality(written) = 2
    /\ Len(todo) = Len(mapping) - 2
    /\ \A w \in written : w.file \in DOMAIN files

-----------------------------------------------------------------------------
(* Claims about repeated runs of the file loop (specification SpecRepeat) *)

\* How the current loop started, and how the i-th finished one did.
StartOfCurrent == runs[Len(runs)].next
StartOf(i) == runs[i - 1].next

\* C12 as claimed: two runs of the loop on the same mapping from the same
\* starting state try the keys in the same sequence, and when both fail at
\* the k-th write they have written the same files.
C12_StableOrder ==
    \A i \in 2..Len(runs) :
        (StartOf(i) = "fresh root" /\ StartOfCurrent = "fresh root") =>
            /\ IsPrefix(order, runs[i].order) \/ IsPrefix(runs[i].order, order)
            /\ ( /\ pc = "returned err" /\ runs[i].err # NoErr
                 /\ Len(order) = Len(runs[i].order) )
               => { w.file : w \in written } = { w.file : w \in runs[i].written }

-----------------------------------------------------------------------------
(* Claims about determinism of package templates (specification SpecTemplates) *)

ListCalls == { i \in 1..Len(api) : api[i].fn = "GetAvailableTemplates" }

\* The content a mapping holds for a key.
ContentOf(m, path) == { m[i].content : i \in { i \in 1..Len(m) : m[i].path = path } }

C15_ListFixedOrder ==
    \A i \in ListCalls :
        /\ Len(api[i].list) = 2
        /\ Name(api[i].list[1]) = "hexagonal"
        /\ Name(api[i].list[2]) = "clean"
        /\ \A j \in ListCalls : api[j].list = api[i].list

\* C15 witness: the list was asked for after a GenerateFiles call.
C15_Witness ==
    /\ Len(api) = 2
    /\ api[1].fn = "GenerateFiles"
    /\ api[2].fn = "GetAvailableTemplates"
    /\ api[2].list # << >>

\* C16: the names of the templates of the registry are pairwise distinct,
\* and a lookup that returns a template returns the only one of the
\* registry that carries the name asked for.
C16_NamesDistinct ==
    LET all == GetAvailableTemplates
    IN  /\ \A a, b \in 1..Len(all) : a # b => Name(all[a]) # Name(all[b])
        /\ \A i \in ListCalls :
              \A a, b \in 1..Len(api[i].list) :
                  a # b => Name(api[i].list[a]) # Name(api[i].list[b])
        /\ \A i \in LookupCalls :
              api[i].template # NoTemplate =>
                  { a \in 1..Len(all) : Name(all[a]) = api[i].arg[1] }
                      = { a \in 1..Len(all) : all[a] = api[i].template }

\* C16 witness: the list was returned and "clean" was looked up and found.
C16_Witness ==
    /\ ListCalls # {}
    /\ \E i \in LookupCalls : api[i].arg = << "clean" >> /\ api[i].template = "CleanTemplate"

-----------------------------------------------------------------------------
(* Claims about a whole run of the tool (specification Spec) *)

MainGo == ProjectRoot \o << "cmd", "server", "main.go" >>

ChdirStep == Step("Chdir", PathOf(projectName))

\* Paths strictly below the project root.
UnderRoot(p) == IsPrefix(ProjectRoot, p) /\ p # ProjectRoot

\* C17: an operation that reached DONE with the hexagonal file set has left
\* cmd/server/main.go under the project root, and the project name is one
\* of the pieces of its content, whatever the project name is.
C17_MainGoHoldsProjectName ==
    (Phase = "DONE" /\ (entry = "main.go" \/ template = "HexagonalTemplate")) =>
        /\ MainGo \in DOMAIN files
        /\ \E k \in 1..Len(files[MainGo]) : files[MainGo][k] = projectName

\* C17 witness: --template hexagonal with project name ../out has exited
\* in DONE.
C17_Witness ==
    /\ pc = "exited" /\ Phase = "DONE"
    /\ template = "HexagonalTemplate"
    /\ projectName = "../out"
    /\ MainGo \in DOMAIN files

ReadFailed == pc = "selectTemplate" /\ stdin = << >>

\* C19 as claimed: a failed read of the interactive choice ends the run in
\* failure, and so does every error createProject returns.
C19_NoErrorSwallowed ==
    [][ /\ ReadFailed => (pc' = "Run.err" /\ err' # NoErr)
        /\ err' # NoErr => pc' \in { "Run.err", "exited" } ]_vars

\* C20: the success lines are printed only by a run whose createProject
\* returned nil after go mod tidy, with exit status 0; a run whose
\* createProject returned an error prints the error alone and exits 1.
C20_SuccessOnlyWhenDone ==
    /\ (\E k \in 1..Len(out.printed) : out.printed[k] = "Successfully created project") =>
          /\ err = NoErr
          /\ TidyStep \in okSteps
          /\ pc = "exited" /\ out.exit = 0
    /\ (pc = "exited" /\ err # NoErr) =>
          /\ out.printed = << "Error" >>
          /\ out.exit = 1
    /\ (pc = "exited" /\ err = NoErr) => Len(out.printed) = 3
    /\ out.exit # -1 => pc = "exited"

\* C20 witness: a run whose go mod tidy failed has exited with status 1.
C20_Witness ==
    /\ pc = "exited" /\ out.exit = 1
    /\ err.msg = "failed to run go mod tidy"
    /\ out.printed = << "Error" >>

\* C21: os.MkdirAll(projectName) on a name where a directory already is,
\* empty or not, returns nil and changes nothing, and createProject goes on
\* to os.Chdir.
C21_ExistingRootReused ==
    [][ (pc = "MkdirAll" /\ projectName # "" /\ ProjectRoot \in dirs) =>
            /\ pc' = "Chdir"
            /\ err' = NoErr
            /\ RootStep \in okSteps'
            /\ fsys' = fsys ]_vars

\* C21 witness: the project directory was there with a README.md in it, and
\* the operation went on to write the files into it.
C21_Witness ==
    /\ projectName = "demo"
    /\ RootStep \in okSteps
    /\ Append(ProjectRoot, "README.md") \in DOMAIN files
    /\ ~(\E w \in written : w.key = << "README.md" >>)
    /\ written # {}
    /\ files[Append(ProjectRoot, "README.md")] = OldContent

-----------------------------------------------------------------------------
(* Claims about progress (specification SpecLive) *)

Terminal == Phase \in { "DONE", "FAILED" }

Waiting == pc \in { "runGoModInit.wait", "runGoModTidy.wait" }

\* C22: while go mod init or go mod tidy has not returned the operation is
\* in no terminal state, and no step that follows one of them has started
\* unless it returned without error; and when both return, an operation
\* that entered createProject reaches DONE or FAILED.
C22_BlocksUntilToolsReturn ==
    /\ [](Waiting => ~Terminal)
    /\ []((err = NoErr /\ Rank(Phase) >= 2) => InitStep \in okSteps)
    /\ []((err = NoErr /\ Rank(Phase) >= 4) => TidyStep \in okSteps)
    /\ [](pc = "runGoModInit.wait" =>
             (Count(calls, Step("MkdirAll(dir)", CoreDirs[1])) = 0 /\ WriteSteps(calls) = {}))
    /\ [][(Waiting /\ pc' # pc) =>
             \/ err = NoErr /\ err' # NoErr /\ okSteps' = okSteps
             \/ err' = NoErr /\ okSteps' \ okSteps \in { { InitStep }, { TidyStep } }]_vars
    /\ (pc \in { "createProject", "MkdirAll" }) ~> Terminal

\* C22 witness: go mod tidy is running, after go mod init returned and the
\* files were written.
C22_Witness ==
    /\ pc = "runGoModTidy.wait"
    /\ InitStep \in okSteps
    /\ Phase = "FILES_WRITTEN"

-----------------------------------------------------------------------------
(* Claims about the command line and the prompt (specification Spec) *)

\* The position a line asks for: the integer the line holds once the blanks
\* around it are dropped, when that is 1 or 2; 0 when the line asks for none.
Chosen(line) ==
    CASE line = "1" -> 1
      [] line = " 2 " -> 2
      [] OTHER -> 0

\* C23: a turn of selectTemplate on a line that holds the integer N,
\* 1 <= N <= 2, returns the name of the N-th template of
\* GetAvailableTemplates; on any other line (not a number, 0, negative, 3,
\* none) it returns nothing and prompts again; so the name it returns is one
\* GetTemplateByName finds.
C23_SelectionPositional ==
    [][ pc = "selectTemplate" =>
          LET n == Chosen(IF stdin = << >> THEN "" ELSE Head(stdin))
          IN  /\ n > 0 => /\ pc' = "createProject"
                          /\ templateName' = Name(GetAvailableTemplates[n])
                          /\ GetTemplateByName(templateName') = GetAvailableTemplates[n]
              /\ n = 0 => /\ pc' = "selectTemplate"
                          /\ templateName' = templateName
                          /\ out'.prompts >= out.prompts ]_vars

\* C23 witness: one line was refused, then " 2 " chose the clean template.
C23_Witness ==
    /\ entry = "part_002" /\ templateFlag = ""
    /\ pc = "createProject"
    /\ templateName = "clean"
    /\ out.prompts = 2

-----------------------------------------------------------------------------
(* Claims about the registry as shared state (specification SpecTemplates) *)

\* The registry as it is at process start.
Registry == << "HexagonalTemplate", "CleanTemplate" >>

Modified == { i \in 1..Len(api) : api[i].held # [list |-> api[i].list, mapping |-> api[i].mapping] }

\* C24: whatever calls were made and whatever the callers did to the slices
\* and maps they were given, GetAvailableTemplates is the registry of the
\* start and GetTemplateByName finds in it what it found at the start; and
\* so were the results of the calls made.
C24_RegistryReadOnly ==
    /\ GetAvailableTemplates = Registry
    /\ \A name \in LookupNames :
          GetTemplateByName(name) =
              (IF name = "hexagonal" THEN Registry[1]
               ELSE IF name = "clean" THEN Registry[2] ELSE NoTemplate)
    /\ \A i \in ListCalls : api[i].list = Registry
    /\ \A i \in LookupCalls : api[i].template \in { Registry[1], Registry[2], NoTemplate }

\* C24 witness: a caller overwrote the slice it was given, and the list was
\* asked for again.
C24_Witness ==
    /\ Len(api) = 2
    /\ api[1].fn = "GetAvailableTemplates" /\ 1 \in Modified
    /\ api[2].fn = "GetAvailableTemplates" /\ api[2].list = Registry

-----------------------------------------------------------------------------
(* Claims about the prompt at end of input and about where the project is
   made (specification Spec) *)

\* C25 as claimed: a turn of the loop of selectTemplate that finds standard
\* input at its end leaves the loop, by returning or by failing.
C25_SelectTemplateEndsAtEndOfInput ==
    [][(pc = "selectTemplate" /\ stdin = << >>) => pc' # "selectTemplate"]_vars

\* C26 as claimed: the project root that was created, and every file
\* written, is strictly below the directory the tool was started in.
C26_RootBelowStartDir ==
    /\ RootStep \in okSteps => (IsPrefix(StartDir, ProjectRoot) /\ ProjectRoot # StartDir)
    /\ \A w \in written : IsPrefix(StartDir, w.file)

\* C27: once os.Chdir(projectName) has succeeded the working directory is
\* the project root and stays so, through DONE and FAILED alike; until then
\* it is the directory the tool was started in, and a run that ended with
\* it there failed at the creation of the directory or at the chdir (or, in
\* the later createProject, before both at the lookup of the template).
C27_WorkingDirectoryNotRestored ==
    /\ ChdirStep \in okSteps => cwd = ProjectRoot
    /\ ChdirStep \notin okSteps => cwd = StartDir
    /\ (Terminal /\ ChdirStep \notin okSteps) =>
          \/ err.msg \in { "failed to create project directory",
                           "failed to change to project directory" }
          \/ entry = "part_002" /\ err.msg = "template not found"

\* C27 witness: runs that have exited in DONE with the working directory
\* in the project root, away from the start directory.
C27_Witness ==
    /\ pc = "exited" /\ Phase = "DONE"
    /\ ChdirStep \in okSteps
    /\ cwd = ProjectRoot /\ cwd # StartDir
    /\ entry = "main.go"

-----------------------------------------------------------------------------
(* Claims about the generated tree *)

\* C28 (specification SpecTemplates): the keys of a template's mapping are
\* the same for every identifier, 12 for hexagonal and 19 for clean.
C28_KeysIndependentOfIdentifier ==
    \A i, j \in GenerateCalls :
        api[i].arg[1] = api[j].arg[1] =>
            /\ Keys(api[i].mapping) = Keys(api[j].mapping)
            /\ Cardinality(Keys(api[i].mapping)) =
                  (IF api[i].arg[1] = "HexagonalTemplate" THEN 12 ELSE 19)

\* C28 witness: the hexagonal template generated for "demo" and for "",
\* with different contents.
C28_Witness ==
    /\ Len(api) = 2
    /\ api[1].fn = "GenerateFiles" /\ api[1].arg = << "HexagonalTemplate", "demo" >>
    /\ api[2].fn = "GenerateFiles" /\ api[2].arg = << "HexagonalTemplate", "" >>
    /\ api[1].mapping # api[2].mapping

\* The directories below the project root.
Tree == { d \in dirs : UnderRoot(d) }

\* The directories a mapping needs below the root it is written in.
TreeOf(m) == UNION { Ancestors(ProjectRoot, m[i].path) : i \in 1..Len(m) } \ { ProjectRoot }

\* C29 (specification Spec): the files generateCoreFiles writes are the keys
\* of HexagonalTemplate.GenerateFiles, every directory on the way to them is
\* there before the first write, the parent of each is the root or one of
\* the `dirs` of createProject, and a run of createProject that reached DONE
\* has left below the root the directories the template's mapping needs.
C29_CoreFilesMatchHexagonal ==
    /\ (entry = "main.go" /\ mapping # << >>) =>
          /\ Keys(mapping) = Keys(HexagonalGenerateFiles(projectName))
          /\ TreeOf(mapping) \subseteq dirs
          /\ \A i \in 1..Len(mapping) :
                \/ Len(mapping[i].path) = 1
                \/ \E k \in 1..Len(CoreDirs) : CoreDirs[k] = Front(mapping[i].path)
    /\ (Phase = "DONE" /\ entry = "main.go") =>
          /\ Tree = TreeOf(HexagonalGenerateFiles(projectName))
          /\ { w.key : w \in written } = Keys(CoreFiles(projectName))

\* C29 witness: createProject of create_project.go has written all its
\* files and exited in DONE.
C29_Witness ==
    /\ entry = "main.go" /\ projectName = "demo"
    /\ pc = "exited" /\ Phase = "DONE"
    /\ Cardinality(written) = 12
    /\ Cardinality(Tree) = 14

\* C30 (specification Spec): newCmd.Run goes to the prompt exactly when the
\* --template value is empty; with a value it hands that value to
\* createProject as it is and nothing is ever prompted; createProject is
\* entered from Run, directly or after the prompt, and Run is not entered
\* again, so createProject is called at most once.
C30_PromptOnlyWithoutFlag ==
    [][ /\ (entry = "part_002" /\ pc = "Run" /\ pc' # pc) =>
              IF templateFlag # ""
              THEN pc' = "createProject" /\ templateName' = templateFlag
              ELSE pc' = "selectTemplate"
        /\ (pc' = "selectTemplate" \/ out'.prompts > 0) => templateFlag = ""
        /\ (pc' = "selectTemplate" /\ pc' # pc) => pc = "Run"
        /\ (pc' = "createProject" /\ pc' # pc) =>
              /\ pc \in { "Run", "selectTemplate" }
              /\ calls = << >>
        /\ (pc' = "MkdirAll" /\ pc' # pc) =>
              /\ pc \in { "Run", "createProject" }
              /\ WriteSteps(calls) = {} /\ Count(calls, RootStep) = 0
        /\ pc' = "Run" => pc = "Run" ]_vars

\* C30 witness: a run with --template Hexagonal has exited without having
\* prompted.
C30_Witness ==
    /\ entry = "part_002" /\ templateFlag = "Hexagonal"
    /\ templateName = "Hexagonal"
    /\ pc = "exited" /\ out.prompts = 0

=============================================================================
